---- MODULE Spec2Model ----
(***************************************************************************)
(* Model of trace.js: the registry of Trace objects keyed by asyncId, the  *)
(* async_hooks handlers (init / destroy / promiseResolve) that record      *)
(* descendants and merge stack maps, and the stack-chain extend callback   *)
(* that splices the stored call sites onto a captured frame array.         *)
(***************************************************************************)
EXTENDS Integers, Sequences, FiniteSets, TLC

\* ------------------------------------------------------------------------
\* Program constants (trace.js lines 12-14)
MAX_DESCENDANT_COUNT == 10
MAX_DESCENDANT_DEPTH_TRAVERSAL == 10
MAX_STACKS_TO_JOIN == 50

\* ------------------------------------------------------------------------
\* Bounds of the model
\* number of notifications that change the Registry or a Trace under Spec
MaxEvents == 5
\* number of async contexts the host allocates under SpecBig
MaxBigId == 64
\* ids 2..FanIds are triggered by context 1 under SpecBig, the rest form a chain
FanIds == 12
\* longest frame array handed to appendUniqueFrames under SpecSplice
MaxOut == 3
\* number of async contexts the host allocates under SpecDeep
MaxDeepId == 14
\* largest stack map handed to removeOldestFromStackMap under SpecTrim
MaxTrim == 53

\* ------------------------------------------------------------------------
\* Call sites.  A call site is what CallSiteCopy keeps of it: file, line,
\* column and the rendered text.
CallSite(file, line, col, text) ==
  [file |-> file, line |-> line, col |-> col, str |-> text]

\* the fake call site that separates the stacks of two async contexts
asyncContextCallSiteMarker ==
  [file |-> "null", line |-> 0, col |-> 0, str |-> "____________________"]

\* equalCallSite compares file, line and column, never the rendered text
equalCallSite(a, b) ==
  /\ a.file = b.file
  /\ a.line = b.line
  /\ a.col = b.col

\* the call site at which context id was created
Site(id) == CallSite("app.js", id, 1, "at site")
\* the location of Site(1), rendered differently
FSite1Alt == CallSite("app.js", 1, 1, "at Timeout.site")
\* a call site of the synchronous stack being rendered
FCur == CallSite("cur.js", 7, 3, "at cur")
\* two further call sites, and the location of the first rendered differently
FA == CallSite("a.js", 1, 1, "at a")
FAAlt == CallSite("a.js", 1, 1, "at Object.a")
FB == CallSite("b.js", 2, 5, "at b")

\* the stacks getCallSites can return when context id is created
StackChoices(id) == { <<Site(id)>> }

\* the frame arrays stack-chain hands to the extend callback
RenderInputs == { <<>>, <<FCur, FSite1Alt>> }

\* ------------------------------------------------------------------------
\* State
VARIABLES
  traces,        \* the Map asyncId -> Trace: the set of ids with an entry
  nodes,         \* the Trace objects ever constructed, by asyncId
  nextId,        \* the next asyncId the host allocates
  hooksEnabled,  \* whether the async hook is enabled
  call,          \* the last extend / appendUniqueFrames call, lookup miss or known edge
  unmatched,     \* history: ids whose init was delivered and no destroy since
  nEvents        \* history: notifications that changed the Registry or a Trace

vars == <<traces, nodes, nextId, hooksEnabled, call, unmatched, nEvents>>

NoCall == [op |-> "none"]

\* what is left of a handler call whose Registry lookup found no Trace
Missed(handler, asyncId) == [op |-> "miss", handler |-> handler, id |-> asyncId]

\* what is left of a promiseResolve whose recordDescendant found the
\* descendant already in the list
Known(this, descendant) == [op |-> "known", this |-> this, descendant |-> descendant]

Range(s) == { s[i] : i \in 1..Len(s) }

\* ------------------------------------------------------------------------
\* sort / rsort: the keys of a stack map as an ascending / descending
\* sequence; its i-th element is the key with i - 1 keys before it
sort(S) ==
  [i \in 1..Cardinality(S) |->
     CHOOSE x \in S : Cardinality({ y \in S : y < x }) = i - 1]

rsort(S) ==
  [i \in 1..Cardinality(S) |->
     CHOOSE x \in S : Cardinality({ y \in S : y > x }) = i - 1]

\* ------------------------------------------------------------------------
\* Trace constructor
NewTrace(asyncId, stack) ==
  [asyncId |-> asyncId,
   stackMap |-> [k \in {asyncId} |-> stack],
   descendants |-> <<>>,
   disabled |-> FALSE]

\* mergeIntoStackMap(dest, source): dest.set(key, value) for every entry of source
mergeIntoStackMap(dest, source) ==
  [k \in (DOMAIN dest) \cup (DOMAIN source) |->
     IF k \in DOMAIN source THEN source[k] ELSE dest[k]]

\* variant: the keys are deleted from the highest down
RECURSIVE removeLoopNewest(_, _, _)
removeLoopNewest(stackMap, keys, i) ==
  IF i > Len(keys) THEN stackMap
  ELSE IF Cardinality(DOMAIN stackMap) < MAX_STACKS_TO_JOIN THEN stackMap
  ELSE removeLoopNewest([k \in (DOMAIN stackMap) \ {keys[Len(keys) - i + 1]} |-> stackMap[k]],
                        keys, i + 1)

\* the loop of removeOldestFromStackMap over the sorted keys
RECURSIVE removeLoop(_, _, _)
removeLoop(stackMap, keys, i) ==
  IF i > Len(keys) THEN stackMap
  ELSE IF Cardinality(DOMAIN stackMap) < MAX_STACKS_TO_JOIN THEN stackMap
  ELSE removeLoop([k \in (DOMAIN stackMap) \ {keys[i]} |-> stackMap[k]], keys, i + 1)

\* variant: nothing is ever evicted
removeOldestNever(stackMap) == stackMap

removeOldestFromStackMap(stackMap) ==
  IF Cardinality(DOMAIN stackMap) < MAX_STACKS_TO_JOIN THEN stackMap
  ELSE removeLoop(stackMap, sort(DOMAIN stackMap), 1)

\* Trace.walk: depth-first over descendants with one shared visited array
RECURSIVE walkFrom(_, _, _, _)
RECURSIVE walkLoop(_, _, _, _, _)
\* variant: a descendant is walked whether or not it was visited before
RECURSIVE walkLoopRevisiting(_, _, _, _, _)
walkLoopRevisiting(ns, t, i, visited, depth) ==
  IF i > Len(ns[t].descendants) THEN visited
  ELSE LET d == ns[t].descendants[i]
       IN walkLoopRevisiting(ns, t, i + 1,
                             walkFrom(ns, d, Append(visited, d), depth + 1), depth)

walkLoop(ns, t, i, visited, depth) ==
  IF i > Len(ns[t].descendants) THEN visited
  ELSE LET d == ns[t].descendants[i]
       IN IF d \in Range(visited)
          THEN walkLoop(ns, t, i + 1, visited, depth)
          ELSE walkLoop(ns, t, i + 1,
                        walkFrom(ns, d, Append(visited, d), depth + 1), depth)

walkFrom(ns, t, visited, depth) ==
  IF depth > MAX_DESCENDANT_DEPTH_TRAVERSAL THEN visited
  ELSE walkLoop(ns, t, 1, visited, depth)

walk(ns, t) == walkFrom(ns, t, <<t>>, 0)

\* variant: each visited Trace's map is merged into this Trace's map
RECURSIVE mergeLoopIntoAncestor(_, _, _, _)
mergeLoopIntoAncestor(ns, this, visited, i) ==
  IF i > Len(visited) THEN ns
  ELSE LET sub == visited[i]
           merged == mergeIntoStackMap(ns[this].stackMap, ns[sub].stackMap)
       IN mergeLoopIntoAncestor(
            [ns EXCEPT ![this].stackMap = removeOldestFromStackMap(merged)],
            this, visited, i + 1)

\* the for loop of recordDescendant over descendant.walk()
RECURSIVE mergeLoop(_, _, _, _)
mergeLoop(ns, this, visited, i) ==
  IF i > Len(visited) THEN ns
  ELSE LET sub == visited[i]
           merged == mergeIntoStackMap(ns[sub].stackMap, ns[this].stackMap)
       IN mergeLoop([ns EXCEPT ![sub].stackMap = removeOldestFromStackMap(merged)],
                    this, visited, i + 1)

\* variant: the descendants list is not searched on entry
recordDescendantAgain(ns, this, descendant) ==
  IF ns[this].disabled
  THEN ns
  ELSE LET pushed == Append(ns[this].descendants, descendant)
       IN IF Len(pushed) >= MAX_DESCENDANT_COUNT
          THEN [ns EXCEPT ![this].descendants = <<>>, ![this].disabled = TRUE]
          ELSE LET ns1 == [ns EXCEPT ![this].descendants = pushed]
               IN mergeLoop(ns1, this, walk(ns1, descendant), 1)

\* variant: the disabled flag is not looked at on entry
recordDescendantWhenDisabled(ns, this, descendant) ==
  IF descendant \in Range(ns[this].descendants)
  THEN ns
  ELSE LET pushed == Append(ns[this].descendants, descendant)
       IN IF Len(pushed) >= MAX_DESCENDANT_COUNT
          THEN [ns EXCEPT ![this].descendants = <<>>, ![this].disabled = TRUE]
          ELSE LET ns1 == [ns EXCEPT ![this].descendants = pushed]
               IN mergeLoop(ns1, this, walk(ns1, descendant), 1)

\* Trace.recordDescendant: the Trace objects after this.recordDescendant(descendant)
recordDescendant(ns, this, descendant) ==
  IF ns[this].disabled \/ descendant \in Range(ns[this].descendants)
  THEN ns
  ELSE LET pushed == Append(ns[this].descendants, descendant)
       IN IF Len(pushed) >= MAX_DESCENDANT_COUNT
          THEN [ns EXCEPT ![this].descendants = <<>>, ![this].disabled = TRUE]
          ELSE LET ns1 == [ns EXCEPT ![this].descendants = pushed]
               IN mergeLoop(ns1, this, walk(ns1, descendant), 1)

\* ------------------------------------------------------------------------
\* Rendering
\* the for loop of appendUniqueFrames
RECURSIVE popLoop(_, _, _)
popLoop(frames, newFrames, i) ==
  IF i <= Len(newFrames) /\ Len(frames) > 1
  THEN IF equalCallSite(newFrames[Len(newFrames) - i + 1], frames[Len(frames)])
       THEN popLoop(SubSeq(frames, 1, Len(frames) - 1), newFrames, i + 1)
       ELSE popLoop(frames, newFrames, i + 1)
  ELSE frames

appendUniqueFrames(frames, newFrames) ==
  popLoop(frames, newFrames, 1) \o <<asyncContextCallSiteMarker>> \o newFrames

\* the for loop of appendExtendedFrames over sortedAsyncIds[lo..hi], in
\* order.  The range is halved and the first half is evaluated (its length
\* taken) before the second half starts, so that the evaluation stays shallow.
RECURSIVE extendLoop(_, _, _, _, _)
extendLoop(frames, stackMap, sortedAsyncIds, lo, hi) ==
  IF lo > hi THEN frames
  ELSE IF lo = hi THEN appendUniqueFrames(frames, stackMap[sortedAsyncIds[lo]])
  ELSE LET mid == (lo + hi) \div 2
           firstHalf == extendLoop(frames, stackMap, sortedAsyncIds, lo, mid)
       IN IF Len(firstHalf) >= 0
          THEN extendLoop(firstHalf, stackMap, sortedAsyncIds, mid + 1, hi)
          ELSE firstHalf

\* variant: the ids taken oldest first (sort where rsort is meant)
appendExtendedFramesOldestFirst(frames, trace) ==
  extendLoop(frames, trace.stackMap, sort(DOMAIN trace.stackMap),
             1, Cardinality(DOMAIN trace.stackMap))

appendExtendedFrames(frames, trace) ==
  extendLoop(frames, trace.stackMap, rsort(DOMAIN trace.stackMap),
             1, Cardinality(DOMAIN trace.stackMap))

\* variant: the Trace is found although the Registry holds it no more
extendedDetached(tr, ns, asyncId, frames) ==
  IF asyncId \in DOMAIN ns THEN appendExtendedFrames(frames, ns[asyncId]) ELSE frames

\* the frame array after the extend callback ran in context asyncId
extended(tr, ns, asyncId, frames) ==
  IF asyncId \in tr THEN appendExtendedFrames(frames, ns[asyncId]) ELSE frames

\* ------------------------------------------------------------------------
\* Handlers
\* asyncInit(asyncId, type, triggerAsyncId), with the stack getCallSites returns
asyncInit(asyncId, triggerAsyncId, stack) ==
  /\ hooksEnabled
  /\ LET ns1 == [n \in (DOMAIN nodes) \cup {asyncId} |->
                   IF n = asyncId THEN NewTrace(asyncId, stack) ELSE nodes[n]]
         tr1 == traces \cup {asyncId}
     IN /\ traces' = tr1
        /\ nodes' = IF triggerAsyncId \in tr1
                    THEN recordDescendant(ns1, triggerAsyncId, asyncId)
                    ELSE ns1
  /\ nextId' = asyncId + 1
  /\ unmatched' = unmatched \cup {asyncId}
  /\ call' = IF triggerAsyncId \in traces \cup {asyncId} THEN NoCall ELSE Missed("init", asyncId)
  /\ nEvents' = nEvents + 1
  /\ UNCHANGED hooksEnabled

\* variant: destroy also drops the context's stack from every stack map
asyncDestroyPurging(asyncId) ==
  /\ hooksEnabled
  /\ traces' = traces \ {asyncId}
  /\ nodes' = [n \in DOMAIN nodes |->
                [nodes[n] EXCEPT !.stackMap =
                   [k \in (DOMAIN nodes[n].stackMap) \ {asyncId} |-> nodes[n].stackMap[k]]]]
  /\ unmatched' = unmatched \ {asyncId}
  /\ call' = IF asyncId \in traces THEN NoCall ELSE Missed("destroy", asyncId)
  /\ nEvents' = IF asyncId \in traces THEN nEvents + 1 ELSE nEvents
  /\ UNCHANGED <<nextId, hooksEnabled>>

\* variant: the Registry entry is never deleted
asyncDestroyKeeping(asyncId) ==
  /\ hooksEnabled
  /\ traces' = traces
  /\ unmatched' = unmatched \ {asyncId}
  /\ call' = IF asyncId \in traces THEN NoCall ELSE Missed("destroy", asyncId)
  /\ nEvents' = IF asyncId \in traces THEN nEvents + 1 ELSE nEvents
  /\ UNCHANGED <<nodes, nextId, hooksEnabled>>

\* asyncDestroy(asyncId)
asyncDestroy(asyncId) ==
  /\ hooksEnabled
  /\ traces' = traces \ {asyncId}
  /\ unmatched' = unmatched \ {asyncId}
  /\ call' = IF asyncId \in traces THEN NoCall ELSE Missed("destroy", asyncId)
  /\ nEvents' = IF asyncId \in traces THEN nEvents + 1 ELSE nEvents
  /\ UNCHANGED <<nodes, nextId, hooksEnabled>>

\* variant: the resolved context's Trace is used although the Registry holds it no more
asyncPromiseResolveDetached(asyncId, triggerAsyncId) ==
  /\ hooksEnabled
  /\ nodes' = IF asyncId \in DOMAIN nodes /\ triggerAsyncId \in traces
              THEN recordDescendant(nodes, triggerAsyncId, asyncId)
              ELSE nodes
  /\ nEvents' = IF nodes' # nodes THEN nEvents + 1 ELSE nEvents
  /\ call' = IF asyncId \in traces /\ triggerAsyncId \in traces
             THEN IF asyncId \in Range(nodes[triggerAsyncId].descendants)
                  THEN Known(triggerAsyncId, asyncId) ELSE NoCall
             ELSE Missed("promiseResolve", asyncId)
  /\ UNCHANGED <<traces, nextId, hooksEnabled, unmatched>>

\* asyncPromiseResolve(asyncId), with triggerAsyncId = asyncHook.triggerAsyncId()
asyncPromiseResolve(asyncId, triggerAsyncId) ==
  /\ hooksEnabled
  /\ nodes' = IF asyncId \in traces /\ triggerAsyncId \in traces
              THEN recordDescendant(nodes, triggerAsyncId, asyncId)
              ELSE nodes
  /\ nEvents' = IF nodes' # nodes THEN nEvents + 1 ELSE nEvents
  /\ call' = IF asyncId \in traces /\ triggerAsyncId \in traces
             THEN IF asyncId \in Range(nodes[triggerAsyncId].descendants)
                  THEN Known(triggerAsyncId, asyncId) ELSE NoCall
             ELSE Missed("promiseResolve", asyncId)
  /\ UNCHANGED <<traces, nextId, hooksEnabled, unmatched>>

\* variant: the callback splices into a copy and leaves the caller's array alone
extendOnCopy(asyncId, frames) ==
  /\ call' = [op |-> "extend", id |-> asyncId, in |-> frames,
              frames |-> frames,
              ret |-> extended(traces, nodes, asyncId, frames)]
  /\ UNCHANGED <<traces, nodes, nextId, hooksEnabled, unmatched, nEvents>>

\* the chain.extend callback, run in context asyncId on the array frames:
\* call.frames is the caller's array after the call, call.ret the array returned
extend(asyncId, frames) ==
  /\ call' = [op |-> "extend", id |-> asyncId, in |-> frames,
              frames |-> extended(traces, nodes, asyncId, frames),
              ret |-> extended(traces, nodes, asyncId, frames)]
  /\ UNCHANGED <<traces, nodes, nextId, hooksEnabled, unmatched, nEvents>>

\* exports.disable
disable ==
  /\ hooksEnabled' = FALSE
  /\ call' = NoCall
  /\ UNCHANGED <<traces, nodes, nextId, unmatched, nEvents>>

\* ------------------------------------------------------------------------
\* Spec: every order of MaxEvents notifications that change something, with
\* any number of notifications that miss, renders and disable in between
Init ==
  /\ traces = {}
  /\ nodes = [n \in {} |-> NewTrace(n, <<>>)]
  /\ nextId = 1
  /\ hooksEnabled = TRUE
  /\ call = NoCall
  /\ unmatched = {}
  /\ nEvents = 0

\* the ids the host has allocated
Created == 1..(nextId - 1)

Next ==
  \/ \E trig \in 0..(nextId - 1), stack \in StackChoices(nextId) :
       nEvents < MaxEvents /\ asyncInit(nextId, trig, stack)
  \/ \E id \in Created : nEvents < MaxEvents /\ asyncDestroy(id)
  \/ \E id \in Created, trig \in 0..(nextId - 1) :
       nEvents < MaxEvents /\ asyncPromiseResolve(id, trig)
  \/ \E id \in 1..nextId, frames \in RenderInputs : extend(id, frames)
  \/ disable

Spec == Init /\ [][Next]_vars

\* ------------------------------------------------------------------------
\* SpecBig: context 1 triggers contexts 2..FanIds, every later context is
\* triggered by the one before it; large enough for the three caps to bite
BigTrigger(id) == IF id = 1 THEN 0 ELSE IF id <= FanIds THEN 1 ELSE id - 1

\* the promiseResolve notifications: context 2 with its own trigger again,
\* context FanIds with trigger 2, and context FanIds with the last context
\* (a higher id, holding a full stack map) as trigger
BigSettles == { <<2, 1>>, <<FanIds, 2>>, <<FanIds, MaxBigId>> }

NextBig ==
  \/ nextId <= MaxBigId /\ asyncInit(nextId, BigTrigger(nextId), <<Site(nextId)>>)
  \/ asyncDestroy(2)
  \/ \E p \in BigSettles : asyncPromiseResolve(p[1], p[2])
  \/ nextId > 1 /\ extend(nextId - 1, <<FCur>>)
  \/ disable

SpecBig == Init /\ [][NextBig]_vars

\* ------------------------------------------------------------------------
\* SpecDeep: every context is triggered by the one before it, a chain longer
\* than the depth cap; the context at the far end of the cap may resolve with
\* trigger 1, and context 1 with the last context as trigger
DeepSettles ==
  { <<MAX_DESCENDANT_DEPTH_TRAVERSAL + 2, 1>>, <<1, MaxDeepId>> }

NextDeep ==
  \/ nextId <= MaxDeepId /\ asyncInit(nextId, nextId - 1, <<Site(nextId)>>)
  \/ asyncDestroy(2)
  \/ \E p \in DeepSettles : asyncPromiseResolve(p[1], p[2])
  \/ nextId > 1 /\ extend(nextId - 1, <<FCur>>)
  \/ disable

SpecDeep == Init /\ [][NextDeep]_vars

\* ------------------------------------------------------------------------
\* SpecSplice: appendUniqueFrames on every pair of short frame arrays
RECURSIVE SeqsUpTo(_, _)
SeqsUpTo(S, n) ==
  IF n = 0 THEN { <<>> }
  ELSE LET shorter == SeqsUpTo(S, n - 1)
       IN shorter \cup { Append(s, x) : s \in { t \in shorter : Len(t) = n - 1 }, x \in S }

\* an accumulated output holds call sites and markers of earlier splices
OutputFrames == SeqsUpTo({FA, FAAlt, FB, asyncContextCallSiteMarker}, MaxOut)
\* a stored stack holds call sites only
StoredFrames == SeqsUpTo({FA, FAAlt, FB}, MaxOut)

InitSplice ==
  /\ traces = {}
  /\ nodes = [n \in {} |-> NewTrace(n, <<>>)]
  /\ nextId = 1
  /\ hooksEnabled = TRUE
  /\ call \in { [op |-> "input", frames |-> f] : f \in OutputFrames }
  /\ unmatched = {}
  /\ nEvents = 0

splice(newFrames) ==
  /\ call.op = "input"
  /\ call' = [op |-> "appendUniqueFrames", in |-> call.frames, new |-> newFrames,
              frames |-> appendUniqueFrames(call.frames, newFrames)]
  /\ UNCHANGED <<traces, nodes, nextId, hooksEnabled, unmatched, nEvents>>

NextSplice == \E newFrames \in StoredFrames : splice(newFrames)

SpecSplice == InitSplice /\ [][NextSplice]_vars

\* ------------------------------------------------------------------------
\* SpecTrim: removeOldestFromStackMap on stack maps of 1 to MaxTrim entries,
\* with consecutive ids or every other id
TrimInputs ==
  { [k \in { lo + gap * i : i \in 0..(n - 1) } |-> <<Site(k)>>] :
      lo \in 1..2, gap \in 1..2, n \in 1..MaxTrim }

InitTrim ==
  /\ traces = {}
  /\ nodes = [n \in {} |-> NewTrace(n, <<>>)]
  /\ nextId = 1
  /\ hooksEnabled = TRUE
  /\ call \in { [op |-> "input", stackMap |-> m] : m \in TrimInputs }
  /\ unmatched = {}
  /\ nEvents = 0

trim ==
  /\ call.op = "input"
  /\ call' = [op |-> "removeOldestFromStackMap", in |-> call.stackMap,
              stackMap |-> removeOldestFromStackMap(call.stackMap)]
  /\ UNCHANGED <<traces, nodes, nextId, hooksEnabled, unmatched, nEvents>>

NextTrim == trim

SpecTrim == InitTrim /\ [][NextTrim]_vars

\* ------------------------------------------------------------------------
\* Properties

Marker == <<asyncContextCallSiteMarker>>

\* the stack captured when context id was created
OwnStack(id) == nodes[id].stackMap[id]

\* no call site of s is at the location of a call site of t
DistinctFrames(s, t) ==
  \A i \in 1..Len(s), j \in 1..Len(t) : ~equalCallSite(s[i], t[j])

Linked(a, b, c) ==
  /\ {a, b, c} \subseteq traces
  /\ a < b /\ b < c
  /\ b \in Range(nodes[a].descendants)
  /\ c \in Range(nodes[b].descendants)
  /\ DistinctFrames(OwnStack(a), OwnStack(b))
  /\ DistinctFrames(OwnStack(b), OwnStack(c))
  /\ DistinctFrames(OwnStack(a), OwnStack(c))

\* render(c, []) was the last call and only a, b, c contribute to c
RenderedChain(a, b, c) ==
  /\ Linked(a, b, c)
  /\ DOMAIN nodes[c].stackMap = {a, b, c}
  /\ call.op = "extend" /\ call.id = c /\ call.in = <<>>

\* C2 as stated: for active contexts a < b < c linked in that order with
\* pairwise distinct frames, render(c, []) returns exactly c's frames, one
\* marker, b's frames, one marker, a's frames.
C2_Original ==
  \A a \in traces, b \in traces, c \in traces :
    RenderedChain(a, b, c) =>
      call.ret = OwnStack(c) \o Marker \o OwnStack(b) \o Marker \o OwnStack(a)

\* C2 (amended): for active contexts a < b < c linked in that order with
\* pairwise distinct frames, all three contribute to c, and render(c, [])
\* returns a marker, c's frames, a marker, b's frames, a marker, a's frames:
\* descending id order, one marker before each contributing context's frames.
C2_RenderOrder ==
  \A a \in traces, b \in traces, c \in traces :
    /\ Linked(a, b, c) => {a, b, c} \subseteq DOMAIN nodes[c].stackMap
    /\ RenderedChain(a, b, c) =>
         call.ret = Marker \o OwnStack(c) \o Marker \o OwnStack(b)
                      \o Marker \o OwnStack(a)

C2_Witness ==
  /\ nextId > 3
  /\ RenderedChain(1, 2, 3)
  /\ call.ret = <<asyncContextCallSiteMarker, Site(3), asyncContextCallSiteMarker,
                  Site(2), asyncContextCallSiteMarker, Site(1)>>

\* C3: render for an id without a Registry entry is the identity: in every
\* state, for every such id (never created, or destroyed) and every input,
\* the callback returns the input, same frames, same order, no marker.
C3_MissIsIdentity ==
  /\ \A id \in (0..nextId) \ traces, fr \in RenderInputs :
       extended(traces, nodes, id, fr) = fr
  /\ (call.op = "extend" /\ call.id \notin traces) => call.ret = call.in

\* render ran for a destroyed context on a non-empty array
C3_Witness ==
  /\ call.op = "extend"
  /\ call.id \in DOMAIN nodes /\ call.id \notin traces
  /\ call.in # <<>>
  /\ call.ret = call.in

\* C4 as stated: the callback never changes the caller's array.
C4_Original ==
  call.op = "extend" => call.frames = call.in

\* C4 (amended): the callback leaves the caller's array as it was only when
\* the context has no Registry entry; when it has one, the stored stacks are
\* spliced into the caller's array itself, which grows by at least one
\* marker, and the array returned is that same array.
C4_InPlace ==
  call.op = "extend" =>
    /\ call.ret = call.frames
    /\ call.id \notin traces => call.frames = call.in
    /\ call.id \in traces => Len(call.frames) > Len(call.in)

\* render ran for an active context on a non-empty array, which it changed
C4_Witness ==
  /\ call.op = "extend" /\ call.id \in traces
  /\ call.in # <<>>
  /\ call.frames # call.in
  /\ call.ret = call.frames

\* C5 as stated: once the hook is disabled the Registry and the Trace
\* objects never change again and every render returns its input unchanged.
C5_DisableStopsAll ==
  [][~hooksEnabled =>
       /\ traces' = traces
       /\ nodes' = nodes
       /\ call'.op = "extend" => call'.ret = call'.in]_vars

\* C6: a disabled Trace stays disabled and keeps an empty descendants list:
\* over every step, a Trace that was disabled is disabled after it, every
\* disabled Trace has no descendants after it, and recordDescendant called
\* on a disabled Trace with any Trace as descendant leaves its list empty.
C6_DisabledForGood ==
  [][/\ \A n \in DOMAIN nodes : nodes[n].disabled => nodes'[n].disabled
     /\ \A n \in DOMAIN nodes' : nodes'[n].disabled => nodes'[n].descendants = <<>>
     /\ \A n \in DOMAIN nodes', d \in DOMAIN nodes' :
          nodes'[n].disabled =>
            recordDescendant(nodes', n, d)[n].descendants = <<>>]_vars

\* context 1 was disabled by its tenth descendant and asked to record another
C6_Witness ==
  /\ 1 \in DOMAIN nodes /\ nodes[1].disabled
  /\ FanIds \in traces /\ 1 \in traces
  /\ nodes[1].descendants = <<>>

\* C7: every Trace, in the Registry or not, has at most MAX_DESCENDANT_COUNT
\* descendants and at most MAX_STACKS_TO_JOIN entries in its stack map.
C7_Bounded ==
  \A n \in DOMAIN nodes :
    /\ Len(nodes[n].descendants) <= MAX_DESCENDANT_COUNT
    /\ Cardinality(DOMAIN nodes[n].stackMap) <= MAX_STACKS_TO_JOIN

\* one Trace hit the descendant cap, another had entries evicted from its map
C7_Witness ==
  /\ \E m \in DOMAIN nodes : nodes[m].disabled
  /\ \E n \in DOMAIN nodes :
       /\ n > FanIds
       /\ FanIds \notin DOMAIN nodes[n].stackMap
       /\ Cardinality(DOMAIN nodes[n].stackMap) = MAX_STACKS_TO_JOIN - 1

\* C8: a Registry lookup miss is a no-op.  A promiseResolve whose asyncId or
\* triggerAsyncId has no entry changes no Trace and no entry; a destroy of an
\* id without entry changes no Trace and no entry; an init whose trigger has
\* no entry (and is not the new id itself, which the host never sends)
\* inserts the new Trace, records no descendant and changes no other Trace.
C8_MissIsNoOp ==
  [][/\ \A id \in 0..nextId, trig \in 0..nextId :
          ((id \notin traces \/ trig \notin traces) /\ asyncPromiseResolve(id, trig))
            => (nodes' = nodes /\ traces' = traces)
     /\ \A id \in 0..nextId :
          (id \notin traces /\ asyncDestroy(id))
            => (nodes' = nodes /\ traces' = traces)
     /\ \A trig \in 0..nextId, stack \in StackChoices(nextId) :
          (trig \notin traces /\ trig # nextId /\ asyncInit(nextId, trig, stack))
            => /\ traces' = traces \cup {nextId}
               /\ DOMAIN nodes' = (DOMAIN nodes) \cup {nextId}
               /\ nodes'[nextId] = NewTrace(nextId, stack)
               /\ \A n \in DOMAIN nodes : nodes'[n] = nodes[n]]_vars

\* a promiseResolve for a destroyed context was delivered while its trigger
\* still had its entry
C8_Witness ==
  /\ call.op = "miss" /\ call.handler = "promiseResolve"
  /\ call.id \in (DOMAIN nodes) \ traces
  /\ \E trig \in traces : call.id \in Range(nodes[trig].descendants)

\* C9: the Registry never holds more entries than there are init
\* notifications delivered and not followed by a destroy of the same id.
C9_RegistryCount ==
  Cardinality(traces) <= Cardinality(unmatched)

\* some context is destroyed, some are left, each the matter of an open init
C9_Witness ==
  /\ (DOMAIN nodes) \ traces # {}
  /\ Cardinality(traces) >= 2
  /\ Cardinality(traces) = Cardinality(unmatched)

Min(a, b) == IF a <= b THEN a ELSE b

\* the number of call sites, counted from the end, at which frames and
\* newFrames agree before they first differ
SuffixOverlap(frames, newFrames) ==
  LET agree(k) == \A i \in 1..k :
                    equalCallSite(newFrames[Len(newFrames) - i + 1],
                                  frames[Len(frames) - i + 1])
  IN CHOOSE k \in 0..Min(Len(frames), Len(newFrames)) :
       /\ agree(k)
       /\ \A j \in (k + 1)..Min(Len(frames), Len(newFrames)) : ~agree(j)

\* the number of call sites the last appendUniqueFrames popped
Dropped == Len(call.in) + 1 + Len(call.new) - Len(call.frames)

\* C10 as stated: appendUniqueFrames pops exactly the overlapping suffix: all
\* of newFrames when the output ends with newFrames (the output then grows by
\* the marker alone), and otherwise as many call sites as the two agree on
\* from the end, and no more.
C10_SuffixDedup ==
  call.op = "appendUniqueFrames" => Dropped = SuffixOverlap(call.in, call.new)

\* the Trace objects at most k edges away from one of S along descendants
RECURSIVE Within(_, _, _)
Within(ns, S, k) ==
  IF k = 0 THEN S
  ELSE Within(ns, S \cup UNION { Range(ns[t].descendants) : t \in S }, k - 1)

\* C11 as stated: when recordDescendant propagates, a Trace more than
\* MAX_DESCENDANT_DEPTH_TRAVERSAL edges away from the descendant takes no part
\* in the merge: its stack map is after the call what it was before.
C11_DepthBounded ==
  [][/\ \A p \in BigSettles :
          asyncPromiseResolve(p[1], p[2]) =>
            \A n \in DOMAIN nodes :
              n \notin Within(nodes', {p[1]} \cap DOMAIN nodes',
                                MAX_DESCENDANT_DEPTH_TRAVERSAL)
                => nodes'[n].stackMap = nodes[n].stackMap
     /\ asyncInit(nextId, BigTrigger(nextId), <<Site(nextId)>>) =>
          \A n \in DOMAIN nodes : nodes'[n].stackMap = nodes[n].stackMap]_vars

\* C12 as stated: recordDescendant empties the list and disables the Trace
\* only when the new descendant would be one more than MAX_DESCENDANT_COUNT;
\* a descendant that brings the count to MAX_DESCENDANT_COUNT or less is
\* recorded, the Trace stays enabled and its history reaches the descendant.
C12_FanOutThreshold ==
  [][asyncInit(nextId, BigTrigger(nextId), <<Site(nextId)>>) =>
       LET a == BigTrigger(nextId)
       IN (a \in traces /\ ~nodes[a].disabled) =>
            IF Len(nodes[a].descendants) + 1 <= MAX_DESCENDANT_COUNT
            THEN /\ nodes'[a].descendants = Append(nodes[a].descendants, nextId)
                 /\ ~nodes'[a].disabled
                 /\ nodes'[nextId].stackMap =
                      removeOldestFromStackMap(
                        mergeIntoStackMap(NewTrace(nextId, <<Site(nextId)>>).stackMap,
                                          nodes[a].stackMap))
            ELSE /\ nodes'[a].descendants = <<>>
                 /\ nodes'[a].disabled]_vars

\* the step is a recordDescendant(d) on Trace a that got past both returns
RecordedEdge(a, d) ==
  /\ a \in traces /\ d \in traces'
  /\ ~nodes[a].disabled
  /\ d \notin Range(nodes[a].descendants)
  /\ ~nodes'[a].disabled

\* the stack map of Trace n before the step (a Trace made in the step starts
\* with its own stack)
Before(n) ==
  IF n \in DOMAIN nodes THEN nodes[n].stackMap
  ELSE NewTrace(n, <<Site(n)>>).stackMap

\* one map holding every entry of the maps Ms (equal keys hold equal stacks)
Union(Ms) ==
  [k \in UNION { DOMAIN m : m \in Ms } |-> (CHOOSE m \in Ms : k \in DOMAIN m)[k]]

\* the maps of the visited Traces were merged into a's map, which was then
\* trimmed; the visited Traces' own maps were left alone
MergedUp(a, d) ==
  RecordedEdge(a, d) =>
    LET visited == Range(walk(nodes', d))
    IN /\ nodes'[a].stackMap =
            removeOldestFromStackMap(Union({ Before(v) : v \in visited \cup {a} }))
       /\ \A v \in visited \ {a} : nodes'[v].stackMap = Before(v)

\* a's map was merged into the map of every visited Trace, which was then
\* trimmed; a's own map and the maps of the Traces not visited were left alone
MergedDown(a, d) ==
  RecordedEdge(a, d) =>
    LET visited == Range(walk(nodes', d))
    IN /\ \A v \in visited :
            nodes'[v].stackMap =
              removeOldestFromStackMap(mergeIntoStackMap(Before(v), nodes[a].stackMap))
       /\ \A n \in (DOMAIN nodes') \ visited : nodes'[n].stackMap = Before(n)
       /\ nodes'[a].stackMap = nodes[a].stackMap

\* C13 as stated: after a recordDescendant that got past the guards, the map
\* of every Trace visited from the descendant has been merged into the
\* ancestor's map and the ancestor's map trimmed; the visited maps are the
\* source of the merge and not its destination.
C13_Original ==
  [][/\ \A p \in BigSettles : asyncPromiseResolve(p[1], p[2]) => MergedUp(p[2], p[1])
     /\ asyncInit(nextId, BigTrigger(nextId), <<Site(nextId)>>)
          => MergedUp(BigTrigger(nextId), nextId)]_vars

\* C13 (amended): after a recordDescendant that got past the guards, the
\* ancestor's map has been merged into the map of every Trace visited from
\* the descendant (the descendant included) and each of these maps trimmed;
\* the ancestor's map is the source of the merge and is not changed, and no
\* other map is changed.
C13_Direction ==
  [][/\ \A p \in BigSettles : asyncPromiseResolve(p[1], p[2]) => MergedDown(p[2], p[1])
     /\ asyncInit(nextId, BigTrigger(nextId), <<Site(nextId)>>)
          => MergedDown(BigTrigger(nextId), nextId)]_vars

\* promiseResolve(FanIds) with trigger 2 reached the chain below FanIds: the
\* Traces down the chain hold the stacks of 1 and 2, Trace 2 holds none of theirs
C13_Witness ==
  /\ FanIds + 2 \in DOMAIN nodes
  /\ FanIds \in Range(nodes[2].descendants)
  /\ DOMAIN nodes[2].stackMap = {1, 2}
  /\ {1, 2} \subseteq DOMAIN nodes[FanIds + 2].stackMap
  /\ \E n \in DOMAIN nodes :
       Cardinality(DOMAIN nodes[n].stackMap) = MAX_STACKS_TO_JOIN - 1

\* C14: removeOldestFromStackMap evicts the oldest entries first.  A map of
\* fewer than MAX_STACKS_TO_JOIN entries is left as it is; otherwise the map
\* ends with fewer than MAX_STACKS_TO_JOIN entries, every id removed is lower
\* than every id kept, the entries kept hold what they held, and no more
\* entries are removed than needed: MAX_STACKS_TO_JOIN - 1 are left.
C14_TrimOldest ==
  call.op = "removeOldestFromStackMap" =>
    LET before == DOMAIN call.in
        after == DOMAIN call.stackMap
    IN /\ Cardinality(before) < MAX_STACKS_TO_JOIN => call.stackMap = call.in
       /\ Cardinality(before) >= MAX_STACKS_TO_JOIN =>
            /\ Cardinality(after) < MAX_STACKS_TO_JOIN
            /\ after \subseteq before
            /\ \A k \in after : call.stackMap[k] = call.in[k]
            /\ \A r \in before \ after, k \in after : r < k
            /\ Cardinality(after) = MAX_STACKS_TO_JOIN - 1

\* a map of more than MAX_STACKS_TO_JOIN + 1 entries was trimmed
C14_Witness ==
  /\ call.op = "removeOldestFromStackMap"
  /\ Cardinality(DOMAIN call.in) > MAX_STACKS_TO_JOIN + 1
  /\ Cardinality(DOMAIN call.stackMap) = MAX_STACKS_TO_JOIN - 1
  /\ 1 \in DOMAIN call.in /\ 1 \notin DOMAIN call.stackMap

\* C15: recordDescendant of a descendant already in the list changes
\* nothing.  A promiseResolve whose context is already in its trigger's
\* descendants list leaves every Trace (list, stack map, disabled flag) and
\* the Registry as they were; and in every state, recordDescendant called
\* with any edge already recorded returns the Trace objects unchanged.
C15_Idempotent ==
  [][/\ \A id \in traces, trig \in traces :
          (id \in Range(nodes[trig].descendants) /\ asyncPromiseResolve(id, trig))
            => (nodes' = nodes /\ traces' = traces)
     /\ \A a \in DOMAIN nodes' :
          \A d \in Range(nodes'[a].descendants) :
            recordDescendant(nodes', a, d) = nodes']_vars

\* context 2 was created with trigger 1 and then resolved with trigger 1,
\* after context 3 had been created with trigger 2
C15_Witness ==
  /\ call = Known(1, 2)
  /\ nodes[1].descendants = <<2>>
  /\ nodes[2].descendants = <<3>>
  /\ DOMAIN nodes[3].stackMap = {1, 2, 3}

\* C16 as stated: appendUniqueFrames stops popping at the first mismatch:
\* it pops no more call sites than frames and newFrames agree on, counted
\* from the end, before they first differ.
C16_StopsAtMismatch ==
  call.op = "appendUniqueFrames" => Dropped <= SuffixOverlap(call.in, call.new)

\* no element occurs twice in s
NoDup(s) == \A i \in 1..Len(s), j \in 1..Len(s) : s[i] = s[j] => i = j

\* every Trace of ns is within the fan-out and map-size bounds
WithinBounds(ns) ==
  \A n \in DOMAIN ns :
    /\ Len(ns[n].descendants) <= MAX_DESCENDANT_COUNT
    /\ Cardinality(DOMAIN ns[n].stackMap) <= MAX_STACKS_TO_JOIN

\* C17: cycles are tolerated.  In every reachable state, self-edges and
\* cycles included, walk() from every Trace returns, with every Trace at
\* most once and none that does not exist; every Trace is within the fan-out
\* and map-size bounds; and recordDescendant on every pair of Traces returns
\* and leaves every Trace within these bounds.
C17_CycleTolerant ==
  /\ \A t \in DOMAIN nodes :
       /\ NoDup(walk(nodes, t))
       /\ Range(walk(nodes, t)) \subseteq DOMAIN nodes
  /\ WithinBounds(nodes)
  /\ \A a \in DOMAIN nodes, d \in DOMAIN nodes :
       /\ DOMAIN recordDescendant(nodes, a, d) = DOMAIN nodes
       /\ WithinBounds(recordDescendant(nodes, a, d))

\* context 1 is its own descendant, and contexts 1 and 2 are each other's
C17_Witness ==
  /\ {1, 2} \subseteq DOMAIN nodes
  /\ 1 \in Range(nodes[1].descendants)
  /\ 2 \in Range(nodes[1].descendants)
  /\ 1 \in Range(nodes[2].descendants)
  /\ Len(walk(nodes, 2)) = 2

\* C18 as stated: once Trace n is disabled, no step gives another Trace's
\* stack map an entry keyed by n that the map did not hold before the step,
\* whether the entry would come from n itself or from a Trace that received
\* it before n was disabled.
C18_DisabledSilent ==
  [][\A n \in DOMAIN nodes :
       nodes[n].disabled =>
         \A m \in (DOMAIN nodes') \ {n} :
           n \in DOMAIN nodes'[m].stackMap =>
             (m \in DOMAIN nodes /\ n \in DOMAIN nodes[m].stackMap)]_vars

\* C19 as stated: a Trace never loses its own stack: in every state the stack
\* map of every Trace holds an entry keyed by the Trace's own asyncId.
C19_OwnFrames ==
  \A n \in DOMAIN nodes : n \in DOMAIN nodes[n].stackMap

\* C20 as stated: propagation is complete within the depth cap.  When a
\* promiseResolve records descendant d on Trace a, every Trace at most
\* MAX_DESCENDANT_DEPTH_TRAVERSAL edges away from d is in d.walk() and its
\* stack map holds every entry of a's map after the call.
C20_CompleteWithinCap ==
  [][\A p \in DeepSettles :
       (asyncPromiseResolve(p[1], p[2]) /\ RecordedEdge(p[2], p[1])) =>
         \A n \in Within(nodes', {p[1]}, MAX_DESCENDANT_DEPTH_TRAVERSAL) :
           /\ n \in Range(walk(nodes', p[1]))
           /\ DOMAIN nodes[p[2]].stackMap \subseteq DOMAIN nodes'[n].stackMap]_vars

====
